---- MODULE Spec2Model ----
(***************************************************************************)
(* Price resolution chain (POST /api/price) and bulk backfill job          *)
(* lifecycle (QueueService) of data-alchemy, over MemStorage, RedisService *)
(* and AlchemyService.                                                     *)
(*                                                                         *)
(* Every `await` of a handler is a step boundary: one action per awaited   *)
(* call together with the synchronous code that follows it.                *)
(***************************************************************************)
EXTENDS Integers, Sequences, FiniteSets, TLC

(***************************************************************************)
(* Bounds of the model.                                                    *)
(***************************************************************************)
RequestIds == {1, 2}  \* the price resolution calls of one behaviour
JobIds == {1, 2}      \* the ids the schedule calls of one behaviour can be given
MaxDays == 2          \* longest daily timestamp sequence of a job racing with others
MaxRun == 11          \* longest daily timestamp sequence of a job running alone
MaxNulls == 1         \* unresolved slots in one batch answer

(***************************************************************************)
(* Program constants.                                                      *)
(***************************************************************************)
DAY == 86400          \* 24 * 60 * 60, stride of the timestamp loop
batchSize == 10
maxGap == 604800      \* 7 * 24 * 60 * 60
Concurrency == 3      \* worker concurrency
retries == 3          \* pRetry option
Now == 1700000000     \* Math.floor(Date.now() / 1000): the clock reading

ProviderCallIds == {1, 2}
Tokens == {"0xA"}
StoreTokens == {"0xA", "0xB"}
StoreNetworks == {"ethereum", "polygon"}
Networks == {"ethereum"}

(***************************************************************************)
(* JavaScript values.  An optional value (undefined / null) is a sequence  *)
(* of length 0 or 1.  A number is a rational num/den; den = 0 encodes the  *)
(* IEEE results of a division by zero (0/0 = NaN, x/0 = Infinity).         *)
(***************************************************************************)
None == << >>
Some(x) == << x >>
IsSome(m) == Len(m) = 1
Val(m) == m[1]

Abs(x) == IF x < 0 THEN -x ELSE x

RECURSIVE Gcd(_, _)
Gcd(a, b) == IF b = 0 THEN a ELSE Gcd(b, a % b)

Sign(x) == IF x > 0 THEN 1 ELSE IF x < 0 THEN -1 ELSE 0

\* the number n/d
Rat(n, d) ==
    IF d = 0 THEN [num |-> Sign(n), den |-> 0]
    ELSE LET g == Gcd(Abs(n), Abs(d))
             s == IF d < 0 THEN -1 ELSE 1
         IN  [num |-> s * (n \div g), den |-> s * (d \div g)]

Num(n) == Rat(n, 1)
IsNaN(x) == x.num = 0 /\ x.den = 0
RatSub(x, y) == Rat(x.num * y.den - y.num * x.den, x.den * y.den)
RatAdd(x, y) == Rat(x.num * y.den + y.num * x.den, x.den * y.den)
RatMul(x, y) == Rat(x.num * y.num, x.den * y.den)
RatDiv(x, y) == IF y.num = 0 THEN Rat(x.num, 0)
                ELSE Rat(x.num * y.den, x.den * y.num)
RatAbs(x) == [num |-> Abs(x.num), den |-> x.den]
\* x > y as IEEE compares: false when either side is NaN
RatGt(x, y) ==
    IF IsNaN(x) \/ IsNaN(y) THEN FALSE
    ELSE IF x.den = 0 THEN x.num > 0 /\ ~(y.den = 0 /\ y.num > 0)
    ELSE IF y.den = 0 THEN y.num < 0
    ELSE x.num * y.den > y.num * x.den

\* Number.prototype.toString and parseFloat: a string holds the decimal
\* rendering of the number, which parseFloat reads back
NumberToString(x) == [str |-> x]
parseFloat(s) == s.str
\* x?.toString() || null
ToStringOrNull(m) == IF IsSome(m) THEN Some(NumberToString(Val(m))) ELSE None
\* s ? parseFloat(s) : undefined   (a non-empty string is truthy)
ParseOrUndefined(m) == IF IsSome(m) THEN Some(parseFloat(Val(m))) ELSE None
\* n || null for a number n: 0 is falsy
NumberOrNull(m) == IF IsSome(m) /\ Val(m) # 0 THEN m ELSE None

\* JSON.stringify / JSON.parse of a result object
JsonStringify(v) == [json |-> v]
JsonParse(s) == s.json

(***************************************************************************)
(* The provider's answers.  A TokenPrice is {price, marketCap?, volume?}.  *)
(***************************************************************************)
TokenPrices ==
    { [price |-> Num(10), marketCap |-> None, volume |-> None],
      [price |-> Num(20), marketCap |-> Some(Num(500)), volume |-> Some(Num(7))] }

\* timestamps a price request may name: the latest daily slot and the
\* instant half-way between the last two
ReqTimestamps == {Now - (DAY \div 2), Now}

VARIABLES
    cache,              \* Redis: key -> stored string (present keys only)
    connected,          \* RedisService.connected
    historicalPrices,   \* MemStorage.historicalPrices: key -> HistoricalPrice
    priceQueries,       \* MemStorage.priceQueries, in id order (id = index)
    bulkFetchJobs,      \* MemStorage.bulkFetchJobs, in id order (id = index)
    queue,              \* BullMQ 'bulk-fetch' queue: waiting job data
    proc,               \* processJob invocations: job id -> frame
    requests,           \* POST /api/price invocations: frame per call
    scheduled,          \* POST /api/schedule invocations: what each call returned
    provider,           \* AlchemyService calls: the pRetry run of each
    interpolation       \* an InterpolationService use: its arguments and results

vars == <<cache, connected, historicalPrices, priceQueries, bulkFetchJobs, queue, proc, requests,
          scheduled, provider, interpolation>>

(***************************************************************************)
(* MemStorage                                                              *)
(***************************************************************************)
\* a key made of the token address and the timestamp alone
StorageKey_NoNetwork(tokenAddress, network, timestamp) ==
    tokenAddress \o "-" \o ToString(timestamp)

\* `${tokenAddress}-${network}-${timestamp}`
StorageKey(tokenAddress, network, timestamp) ==
    tokenAddress \o "-" \o network \o "-" \o ToString(timestamp)

createPriceQuery(query) ==
    Append(priceQueries, [query EXCEPT !.price = IF IsSome(query.price) THEN query.price ELSE None])

createHistoricalPrice(price) ==
    LET historicalPrice == [price EXCEPT
            !.marketCap = IF IsSome(price.marketCap) THEN price.marketCap ELSE None,
            !.volume = IF IsSome(price.volume) THEN price.volume ELSE None]
        key == StorageKey(price.tokenAddress, price.network, price.timestamp)
    IN  (key :> historicalPrice) @@ historicalPrices

getHistoricalPrice(tokenAddress, network, timestamp) ==
    LET key == StorageKey(tokenAddress, network, timestamp)
    IN  IF key \in DOMAIN historicalPrices THEN Some(historicalPrices[key]) ELSE None

getNearestHistoricalPrices(tokenAddress, network, timestamp) ==
    LET prices == { historicalPrices[k] : k \in DOMAIN historicalPrices }
        mine == { p \in prices : p.tokenAddress = tokenAddress /\ p.network = network }
        lower == { p \in mine : p.timestamp < timestamp }
        upper == { p \in mine : p.timestamp > timestamp }
    IN  [ before |-> IF lower = {} THEN None
                     ELSE Some(CHOOSE p \in lower : \A q \in lower : q.timestamp <= p.timestamp),
          after  |-> IF upper = {} THEN None
                     ELSE Some(CHOOSE p \in upper : \A q \in upper : q.timestamp >= p.timestamp) ]

(***************************************************************************)
(* RedisService.  ok = FALSE: connect or the client call throws, which get  *)
(* and set catch and log.  `connected` follows the client's 'connect' and  *)
(* 'error' events: it tells whether the last call reached Redis.           *)
(***************************************************************************)
\* `price:${tokenAddress}:${network}:${timestamp}`
CacheKey(tokenAddress, network, timestamp) == <<"price", tokenAddress, network, timestamp>>

RedisGet(key, ok) ==
    IF ok /\ key \in DOMAIN cache THEN Some(cache[key]) ELSE None

RedisSet(key, value, ok) ==
    IF ok THEN (key :> value) @@ cache ELSE cache

getCachedPrice(tokenAddress, network, timestamp, ok) ==
    LET cached == RedisGet(CacheKey(tokenAddress, network, timestamp), ok)
    IN  IF IsSome(cached) THEN Some(JsonParse(Val(cached))) ELSE None

setCachedPrice(tokenAddress, network, timestamp, price, ok) ==
    RedisSet(CacheKey(tokenAddress, network, timestamp), JsonStringify(price), ok)

(***************************************************************************)
(* InterpolationService                                                    *)
(***************************************************************************)
\* interpolatePrice measuring the ratio back from the later point
interpolatePrice_FromAfter(targetTimestamp, beforePrice, afterPrice) ==
    LET beforeTs == beforePrice.timestamp
        afterTs == afterPrice.timestamp
        beforePriceValue == parseFloat(beforePrice.price)
        afterPriceValue == parseFloat(afterPrice.price)
        ratio == RatDiv(Num(afterTs - targetTimestamp), Num(afterTs - beforeTs))
        interpolatedPrice ==
            RatAdd(beforePriceValue, RatMul(RatSub(afterPriceValue, beforePriceValue), ratio))
    IN  [ price |-> interpolatedPrice,
          source |-> "interpolated",
          details |-> [ beforePrice |-> beforePriceValue,
                        afterPrice |-> afterPriceValue,
                        beforeTimestamp |-> beforeTs,
                        afterTimestamp |-> afterTs,
                        ratio |-> ratio ] ]

interpolatePrice(targetTimestamp, beforePrice, afterPrice) ==
    LET beforeTs == beforePrice.timestamp
        afterTs == afterPrice.timestamp
        beforePriceValue == parseFloat(beforePrice.price)
        afterPriceValue == parseFloat(afterPrice.price)
        ratio == RatDiv(Num(targetTimestamp - beforeTs), Num(afterTs - beforeTs))
        interpolatedPrice ==
            RatAdd(beforePriceValue, RatMul(RatSub(afterPriceValue, beforePriceValue), ratio))
    IN  [ price |-> interpolatedPrice,
          source |-> "interpolated",
          details |-> [ beforePrice |-> beforePriceValue,
                        afterPrice |-> afterPriceValue,
                        beforeTimestamp |-> beforeTs,
                        afterTimestamp |-> afterTs,
                        ratio |-> ratio ] ]

canInterpolate(beforePrice, afterPrice, targetTimestamp) ==
    LET beforeTs == beforePrice.timestamp
        afterTs == afterPrice.timestamp
        beforePriceValue == parseFloat(beforePrice.price)
        afterPriceValue == parseFloat(afterPrice.price)
        timeGap == afterTs - beforeTs
        priceChange == RatDiv(RatAbs(RatSub(afterPriceValue, beforePriceValue)), beforePriceValue)
    IN  IF targetTimestamp <= beforeTs \/ targetTimestamp >= afterTs THEN FALSE
        ELSE IF timeGap > maxGap THEN FALSE
        ELSE IF RatGt(priceChange, Rat(1, 2)) THEN FALSE
        ELSE TRUE

\* the fields of a HistoricalPrice the service reads
PointTimestamps == {1000, 1500, 2000, 1000 + maxGap, 1001 + maxGap}
PointPrices == {0, 10, 15, 16, 20}
PricePoints ==
    { [timestamp |-> timestamp, price |-> NumberToString(Num(price))] :
        timestamp \in PointTimestamps, price \in PointPrices }

IdleInterpolation ==
    [ pc |-> "idle", beforePrice |-> None, afterPrice |-> None, targetTimestamp |-> 0,
      can |-> FALSE, interpolated |-> None ]

\* interpolationService.canInterpolate(before, after, timestamp)
CanInterpolate ==
    /\ interpolation.pc = "can"
    /\ interpolation' = [interpolation EXCEPT
           !.pc = "interpolate",
           !.can = canInterpolate(Val(interpolation.beforePrice),
                                  Val(interpolation.afterPrice),
                                  interpolation.targetTimestamp)]
    /\ UNCHANGED <<cache, connected, historicalPrices, priceQueries, bulkFetchJobs, queue, proc,
                   requests, scheduled, provider>>

\* interpolationService.interpolatePrice(timestamp, before, after)
InterpolatePrice ==
    /\ interpolation.pc = "interpolate"
    /\ interpolation' = [interpolation EXCEPT
           !.pc = "done",
           !.interpolated = Some(interpolatePrice(interpolation.targetTimestamp,
                                                  Val(interpolation.beforePrice),
                                                  Val(interpolation.afterPrice)))]
    /\ UNCHANGED <<cache, connected, historicalPrices, priceQueries, bulkFetchJobs, queue, proc,
                   requests, scheduled, provider>>

(***************************************************************************)
(* POST /api/price.  A frame holds the handler's position and locals;      *)
(* `calls` logs the collaborator calls the invocation has made, `audits`   *)
(* the ids of the PriceQuery records it created, and `response` what it    *)
(* sent: status 200 with a body, 404, or 500.                              *)
(***************************************************************************)
Unsent == [status |-> 0, body |-> None]

IdleFrame ==
    [ pc |-> "idle", token |-> "", network |-> "", timestamp |-> 0,
      cached |-> None, existingPrice |-> None, alchemyPrice |-> None,
      interpolated |-> None, calls |-> << >>, audits |-> << >>, response |-> Unsent ]

\* a response body; absent members are undefined
Result(price, source, marketCap, volume, details) ==
    [ price |-> price, source |-> source, marketCap |-> marketCap,
      volume |-> volume, details |-> details ]

\* the InsertPriceQuery the handler builds
Query(r, price, source) ==
    [ tokenAddress |-> requests[r].token, network |-> requests[r].network,
      timestamp |-> requests[r].timestamp, price |-> Some(price), source |-> source ]

Step(r, pc, call) ==
    [requests[r] EXCEPT !.pc = pc, !.calls = Append(@, call)]

\* a createPriceQuery call: it is logged, with the id the record was given
AuditStep(r) ==
    [requests[r] EXCEPT !.pc = "done", !.calls = Append(@, "storage.createPriceQuery"),
                        !.audits = Append(@, Len(priceQueries) + 1)]

Respond(frame, status, body) ==
    [frame EXCEPT !.pc = "done", !.response = [status |-> status, body |-> body]]

\* priceRequestSchema.parse(req.body): the handler is entered
PostPrice(r, token, network, timestamp) ==
    /\ requests[r].pc = "idle"
    /\ IF r = 1 THEN TRUE ELSE requests[r - 1].pc # "idle"
    /\ requests' = [requests EXCEPT ![r] =
            [@ EXCEPT !.pc = "getCached", !.token = token,
                      !.network = network, !.timestamp = timestamp]]
    /\ UNCHANGED <<cache, connected, historicalPrices, priceQueries, bulkFetchJobs, queue, proc, scheduled, provider, interpolation>>

\* GetCachedPrice asking the provider before the persisted store on a miss
GetCachedPrice_ProviderFirst(r) ==
    /\ requests[r].pc = "getCached"
    /\ \E ok \in BOOLEAN :
         LET f == requests[r]
             cached == getCachedPrice(f.token, f.network, f.timestamp, ok)
             next == Step(r, IF IsSome(cached) THEN "auditCache" ELSE "getTokenPrice",
                          "redis.get")
         IN  /\ requests' = [requests EXCEPT ![r] = [next EXCEPT !.cached = cached]]
             /\ connected' = ok
    /\ UNCHANGED <<cache, historicalPrices, priceQueries, bulkFetchJobs, queue, proc, scheduled, provider, interpolation>>

\* GetCachedPrice letting a Redis error escape to the handler's catch
GetCachedPrice_Throws(r) ==
    /\ requests[r].pc = "getCached"
    /\ \E ok \in BOOLEAN :
         LET f == requests[r]
             cached == getCachedPrice(f.token, f.network, f.timestamp, ok)
             next == Step(r, IF IsSome(cached) THEN "auditCache" ELSE "getHistorical",
                          "redis.get")
         IN  /\ requests' = [requests EXCEPT ![r] =
                    IF ok THEN [next EXCEPT !.cached = cached] ELSE Respond(next, 500, None)]
             /\ connected' = ok
    /\ UNCHANGED <<cache, historicalPrices, priceQueries, bulkFetchJobs, queue, proc, scheduled, provider, interpolation>>

\* const cached = await redisService.getCachedPrice(...); if (cached) ...
GetCachedPrice(r) ==
    /\ requests[r].pc = "getCached"
    /\ \E ok \in BOOLEAN :
         LET f == requests[r]
             cached == getCachedPrice(f.token, f.network, f.timestamp, ok)
             next == Step(r, IF IsSome(cached) THEN "auditCache" ELSE "getHistorical",
                          "redis.get")
         IN  /\ requests' = [requests EXCEPT ![r] = [next EXCEPT !.cached = cached]]
             /\ connected' = ok
    /\ UNCHANGED <<cache, historicalPrices, priceQueries, bulkFetchJobs, queue, proc, scheduled, provider, interpolation>>

\* AuditCache writing the entry it was served back to the cache
AuditCache_Rewrites(r) ==
    /\ requests[r].pc = "auditCache"
    /\ LET f == requests[r]
           cached == Val(f.cached)
           result == Result(cached.price, "cache", cached.marketCap, cached.volume, None)
       IN  /\ priceQueries' = createPriceQuery(Query(r, NumberToString(cached.price), "cache"))
           /\ cache' = setCachedPrice(f.token, f.network, f.timestamp, result, TRUE)
           /\ requests' = [requests EXCEPT ![r] = Respond(AuditStep(r), 200, Some(result))]
    /\ UNCHANGED <<connected, historicalPrices, bulkFetchJobs, queue, proc, scheduled, provider, interpolation>>

\* cache hit: await storage.createPriceQuery({... source: 'cache'}); return res.json(...)
AuditCache(r) ==
    /\ requests[r].pc = "auditCache"
    /\ LET cached == Val(requests[r].cached)
       IN  /\ priceQueries' = createPriceQuery(Query(r, NumberToString(cached.price), "cache"))
           /\ requests' = [requests EXCEPT ![r] =
                  Respond(AuditStep(r), 200,
                          Some(Result(cached.price, "cache", cached.marketCap,
                                      cached.volume, None)))]
    /\ UNCHANGED <<cache, connected, historicalPrices, bulkFetchJobs, queue, proc, scheduled, provider, interpolation>>

\* const existingPrice = await storage.getHistoricalPrice(...); if (existingPrice) ...
GetHistoricalPrice(r) ==
    /\ requests[r].pc = "getHistorical"
    /\ LET f == requests[r]
           existingPrice == getHistoricalPrice(f.token, f.network, f.timestamp)
           next == Step(r, IF IsSome(existingPrice) THEN "setCachedStorage" ELSE "getTokenPrice",
                        "storage.getHistoricalPrice")
       IN  requests' = [requests EXCEPT ![r] = [next EXCEPT !.existingPrice = existingPrice]]
    /\ UNCHANGED <<cache, connected, historicalPrices, priceQueries, bulkFetchJobs, queue, proc, scheduled, provider, interpolation>>

\* the result object of the storage tier
StorageResult(existingPrice) ==
    Result(parseFloat(existingPrice.price), "storage",
           ParseOrUndefined(existingPrice.marketCap),
           ParseOrUndefined(existingPrice.volume), None)

\* await redisService.setCachedPrice(token, network, timestamp, result)
SetCachedStorage(r) ==
    /\ requests[r].pc = "setCachedStorage"
    /\ \E ok \in BOOLEAN :
         LET f == requests[r]
         IN  /\ connected' = ok
             /\ cache' = setCachedPrice(f.token, f.network, f.timestamp,
                                        StorageResult(Val(f.existingPrice)), ok)
             /\ requests' = [requests EXCEPT ![r] = Step(r, "auditStorage", "redis.set")]
    /\ UNCHANGED <<historicalPrices, priceQueries, bulkFetchJobs, queue, proc, scheduled, provider, interpolation>>

\* AuditStorage tagging its record with the cache tier
AuditStorage_TaggedCache(r) ==
    /\ requests[r].pc = "auditStorage"
    /\ LET existingPrice == Val(requests[r].existingPrice)
       IN  /\ priceQueries' = createPriceQuery(Query(r, existingPrice.price, "cache"))
           /\ requests' = [requests EXCEPT ![r] =
                  Respond(AuditStep(r), 200, Some(StorageResult(existingPrice)))]
    /\ UNCHANGED <<cache, connected, historicalPrices, bulkFetchJobs, queue, proc, scheduled, provider, interpolation>>

\* await storage.createPriceQuery({... source: 'storage'}); return res.json(result)
AuditStorage(r) ==
    /\ requests[r].pc = "auditStorage"
    /\ LET existingPrice == Val(requests[r].existingPrice)
       IN  /\ priceQueries' = createPriceQuery(Query(r, existingPrice.price, "storage"))
           /\ requests' = [requests EXCEPT ![r] =
                  Respond(AuditStep(r), 200,
                          Some(StorageResult(existingPrice)))]
    /\ UNCHANGED <<cache, connected, historicalPrices, bulkFetchJobs, queue, proc, scheduled, provider, interpolation>>

\* const alchemyPrice = await alchemyService.getTokenPrice(...); if (alchemyPrice) ...
\* The provider answers with a TokenPrice, or null once its retries are spent.
GetTokenPrice(r) ==
    /\ requests[r].pc = "getTokenPrice"
    /\ \E alchemyPrice \in {None} \cup { Some(tp) : tp \in TokenPrices } :
         LET next == Step(r, IF IsSome(alchemyPrice) THEN "setCachedAlchemy" ELSE "getNearest",
                          "alchemy.getTokenPrice")
         IN  requests' = [requests EXCEPT ![r] = [next EXCEPT !.alchemyPrice = alchemyPrice]]
    /\ UNCHANGED <<cache, connected, historicalPrices, priceQueries, bulkFetchJobs, queue, proc, scheduled, provider, interpolation>>

\* the result object of the provider tier
AlchemyResult(alchemyPrice) ==
    Result(alchemyPrice.price, "alchemy", alchemyPrice.marketCap, alchemyPrice.volume, None)

\* await redisService.setCachedPrice(token, network, timestamp, result)
SetCachedAlchemy(r) ==
    /\ requests[r].pc = "setCachedAlchemy"
    /\ \E ok \in BOOLEAN :
         LET f == requests[r]
         IN  /\ connected' = ok
             /\ cache' = setCachedPrice(f.token, f.network, f.timestamp,
                                        AlchemyResult(Val(f.alchemyPrice)), ok)
             /\ requests' = [requests EXCEPT ![r] = Step(r, "createHistorical", "redis.set")]
    /\ UNCHANGED <<historicalPrices, priceQueries, bulkFetchJobs, queue, proc, scheduled, provider, interpolation>>

\* the InsertHistoricalPrice built from a TokenPrice
InsertPrice(tokenAddress, network, timestamp, price) ==
    [ tokenAddress |-> tokenAddress, network |-> network, timestamp |-> timestamp,
      price |-> NumberToString(price.price),
      marketCap |-> ToStringOrNull(price.marketCap),
      volume |-> ToStringOrNull(price.volume) ]

\* await storage.createHistoricalPrice({...})
CreateHistorical(r) ==
    /\ requests[r].pc = "createHistorical"
    /\ LET f == requests[r]
       IN  historicalPrices' = createHistoricalPrice(
               InsertPrice(f.token, f.network, f.timestamp, Val(f.alchemyPrice)))
    /\ requests' = [requests EXCEPT ![r] =
           Step(r, "auditAlchemy", "storage.createHistoricalPrice")]
    /\ UNCHANGED <<cache, connected, priceQueries, bulkFetchJobs, queue, proc, scheduled, provider, interpolation>>

\* await storage.createPriceQuery({... source: 'alchemy'}); return res.json(result)
AuditAlchemy(r) ==
    /\ requests[r].pc = "auditAlchemy"
    /\ LET alchemyPrice == Val(requests[r].alchemyPrice)
       IN  /\ priceQueries' =
                  createPriceQuery(Query(r, NumberToString(alchemyPrice.price), "alchemy"))
           /\ requests' = [requests EXCEPT ![r] =
                  Respond(AuditStep(r), 200,
                          Some(AlchemyResult(alchemyPrice)))]
    /\ UNCHANGED <<cache, connected, historicalPrices, bulkFetchJobs, queue, proc, scheduled, provider, interpolation>>

\* the result object of the interpolation tier
InterpolatedResult(interpolated) ==
    Result(interpolated.price, "interpolated", None, None, Some(interpolated.details))

\* const { before, after } = await storage.getNearestHistoricalPrices(...);
\* if (before && after && canInterpolate(...)) interpolate, else respond 404
\* GetNearest logging the miss as a PriceQuery without a price
GetNearest_AuditsMiss(r) ==
    /\ requests[r].pc = "getNearest"
    /\ LET f == requests[r]
           near == getNearestHistoricalPrices(f.token, f.network, f.timestamp)
           next == Step(r, "setCachedInterp", "storage.getNearestHistoricalPrices")
       IN  IF /\ IsSome(near.before)
              /\ IsSome(near.after)
              /\ canInterpolate(Val(near.before), Val(near.after), f.timestamp)
           THEN /\ requests' = [requests EXCEPT ![r] = [next EXCEPT !.interpolated =
                     Some(interpolatePrice(f.timestamp, Val(near.before), Val(near.after)))]]
                /\ UNCHANGED priceQueries
           ELSE /\ requests' = [requests EXCEPT ![r] = Respond(next, 404, None)]
                /\ priceQueries' = createPriceQuery(
                       [ tokenAddress |-> f.token, network |-> f.network,
                         timestamp |-> f.timestamp, price |-> None, source |-> "none" ])
    /\ UNCHANGED <<cache, connected, historicalPrices, bulkFetchJobs, queue, proc, scheduled,
                   provider, interpolation>>

\* GetNearest caching the miss, so that the next lookup is answered at once
GetNearest_CachesMiss(r) ==
    /\ requests[r].pc = "getNearest"
    /\ LET f == requests[r]
           near == getNearestHistoricalPrices(f.token, f.network, f.timestamp)
           next == Step(r, "setCachedInterp", "storage.getNearestHistoricalPrices")
       IN  IF /\ IsSome(near.before)
              /\ IsSome(near.after)
              /\ canInterpolate(Val(near.before), Val(near.after), f.timestamp)
           THEN /\ requests' = [requests EXCEPT ![r] = [next EXCEPT !.interpolated =
                     Some(interpolatePrice(f.timestamp, Val(near.before), Val(near.after)))]]
                /\ UNCHANGED cache
           ELSE /\ requests' = [requests EXCEPT ![r] = Respond(next, 404, None)]
                /\ cache' = setCachedPrice(f.token, f.network, f.timestamp,
                                           Result(Num(0), "none", None, None, None), TRUE)
    /\ UNCHANGED <<connected, historicalPrices, priceQueries, bulkFetchJobs, queue, proc,
                   scheduled, provider, interpolation>>

GetNearest(r) ==
    /\ requests[r].pc = "getNearest"
    /\ LET f == requests[r]
           near == getNearestHistoricalPrices(f.token, f.network, f.timestamp)
           next == Step(r, "setCachedInterp", "storage.getNearestHistoricalPrices")
       IN  IF /\ IsSome(near.before)
              /\ IsSome(near.after)
              /\ canInterpolate(Val(near.before), Val(near.after), f.timestamp)
           THEN requests' = [requests EXCEPT ![r] = [next EXCEPT !.interpolated =
                    Some(interpolatePrice(f.timestamp, Val(near.before), Val(near.after)))]]
           ELSE requests' = [requests EXCEPT ![r] = Respond(next, 404, None)]
    /\ UNCHANGED <<cache, connected, historicalPrices, priceQueries, bulkFetchJobs, queue, proc, scheduled, provider, interpolation>>

\* SetCachedInterp persisting the estimate as well
SetCachedInterp_Persists(r) ==
    /\ requests[r].pc = "setCachedInterp"
    /\ \E ok \in BOOLEAN :
         LET f == requests[r]
         IN  /\ connected' = ok
             /\ cache' = setCachedPrice(f.token, f.network, f.timestamp,
                                        InterpolatedResult(Val(f.interpolated)), ok)
             /\ historicalPrices' = createHistoricalPrice(
                    InsertPrice(f.token, f.network, f.timestamp,
                                [ price |-> Val(f.interpolated).price,
                                  marketCap |-> None, volume |-> None ]))
             /\ requests' = [requests EXCEPT ![r] = Step(r, "auditInterp", "redis.set")]
    /\ UNCHANGED <<priceQueries, bulkFetchJobs, queue, proc, scheduled, provider, interpolation>>

\* await redisService.setCachedPrice(token, network, timestamp, result)
SetCachedInterp(r) ==
    /\ requests[r].pc = "setCachedInterp"
    /\ \E ok \in BOOLEAN :
         LET f == requests[r]
         IN  /\ connected' = ok
             /\ cache' = setCachedPrice(f.token, f.network, f.timestamp,
                                        InterpolatedResult(Val(f.interpolated)), ok)
             /\ requests' = [requests EXCEPT ![r] = Step(r, "auditInterp", "redis.set")]
    /\ UNCHANGED <<historicalPrices, priceQueries, bulkFetchJobs, queue, proc, scheduled, provider, interpolation>>

\* await storage.createPriceQuery({... source: 'interpolated'}); return res.json(result)
AuditInterp(r) ==
    /\ requests[r].pc = "auditInterp"
    /\ LET interpolated == Val(requests[r].interpolated)
       IN  /\ priceQueries' =
                  createPriceQuery(Query(r, NumberToString(interpolated.price), "interpolated"))
           /\ requests' = [requests EXCEPT ![r] =
                  Respond(AuditStep(r), 200,
                          Some(InterpolatedResult(interpolated)))]
    /\ UNCHANGED <<cache, connected, historicalPrices, bulkFetchJobs, queue, proc, scheduled, provider, interpolation>>

\* the storage call the handler awaits at each position
StorageCallAt(pc) ==
    CASE pc = "getHistorical" -> "storage.getHistoricalPrice"
      [] pc = "createHistorical" -> "storage.createHistoricalPrice"
      [] pc = "getNearest" -> "storage.getNearestHistoricalPrices"
      [] OTHER -> "storage.createPriceQuery"

StoragePcs ==
    {"auditCache", "getHistorical", "auditStorage", "createHistorical",
     "auditAlchemy", "getNearest", "auditInterp"}

\* catch (error) { res.status(500).json(...) }: the awaited storage call of a
\* backend that can fail rejects, and nothing of the handler after it runs
PriceLookupError(r) ==
    /\ requests[r].pc \in StoragePcs
    /\ requests' = [requests EXCEPT ![r] =
           Respond([requests[r] EXCEPT
                       !.calls = Append(@, StorageCallAt(requests[r].pc) \o " rejected")],
                   500, None)]
    /\ UNCHANGED <<cache, connected, historicalPrices, priceQueries, bulkFetchJobs, queue, proc, scheduled, provider, interpolation>>

\* setEx(key, 300, value): the entry lapses after its 5 minutes
ExpireCached(key) ==
    /\ key \in DOMAIN cache
    /\ cache' = [k \in DOMAIN cache \ {key} |-> cache[k]]
    /\ UNCHANGED <<connected, historicalPrices, priceQueries, bulkFetchJobs, queue, proc, requests, scheduled, provider, interpolation>>

(***************************************************************************)
(* MemStorage: bulk fetch jobs                                             *)
(***************************************************************************)
createBulkFetchJob(job) ==
    Append(bulkFetchJobs,
           [ tokenAddress |-> job.tokenAddress, network |-> job.network,
             status |-> job.status,
             progress |-> NumberOrNull(job.progress),
             totalDays |-> NumberOrNull(job.totalDays),
             completedAt |-> None ])

\* updateBulkFetchJob finding its records by the token and network of job id
updateBulkFetchJob_ByToken(id, updates) ==
    IF id \in DOMAIN bulkFetchJobs
    THEN [ other \in DOMAIN bulkFetchJobs |->
             LET job == bulkFetchJobs[other]
                 assigned == [ f \in DOMAIN job |->
                                 IF f \in DOMAIN updates THEN updates[f] ELSE job[f] ]
                 stamped == IF "status" \in DOMAIN updates /\ updates.status = "completed"
                            THEN [assigned EXCEPT !.completedAt = Some(Now)]
                            ELSE assigned
             IN  IF /\ job.tokenAddress = bulkFetchJobs[id].tokenAddress
                    /\ job.network = bulkFetchJobs[id].network
                 THEN stamped ELSE job ]
    ELSE bulkFetchJobs

\* updateBulkFetchJob stamping completedAt on every change of status
updateBulkFetchJob_StampsAnyStatus(id, updates) ==
    IF id \in DOMAIN bulkFetchJobs
    THEN LET job == bulkFetchJobs[id]
             assigned == [ f \in DOMAIN job |->
                             IF f \in DOMAIN updates THEN updates[f] ELSE job[f] ]
             stamped == IF "status" \in DOMAIN updates
                        THEN [assigned EXCEPT !.completedAt = Some(Now)]
                        ELSE assigned
         IN  [bulkFetchJobs EXCEPT ![id] = stamped]
    ELSE bulkFetchJobs

\* Object.assign(job, updates); completedAt stamped when updates.status is 'completed'
updateBulkFetchJob(id, updates) ==
    IF id \in DOMAIN bulkFetchJobs
    THEN LET job == bulkFetchJobs[id]
             assigned == [ f \in DOMAIN job |->
                             IF f \in DOMAIN updates THEN updates[f] ELSE job[f] ]
             stamped == IF "status" \in DOMAIN updates /\ updates.status = "completed"
                        THEN [assigned EXCEPT !.completedAt = Some(Now)]
                        ELSE assigned
         IN  [bulkFetchJobs EXCEPT ![id] = stamped]
    ELSE bulkFetchJobs

getActiveBulkFetchJobs ==
    { id \in DOMAIN bulkFetchJobs :
        bulkFetchJobs[id].status = "pending" \/ bulkFetchJobs[id].status = "processing" }

(***************************************************************************)
(* QueueService.  A frame holds processJob's position and locals; `trail`  *)
(* logs the job record's (status, progress) after each update it made.     *)
(***************************************************************************)
IdleProc ==
    [ pc |-> "idle", tokenAddress |-> "", network |-> "", creationTimestamp |-> None,
      timestamps |-> << >>, i |-> 0, batch |-> << >>, prices |-> << >>, j |-> 0,
      trail |-> << >> ]

\* the frame's trail extended by the record of job id as `jobs` holds it
Trailed(frame, jobs, id) ==
    [frame EXCEPT !.trail = Append(@, <<jobs[id].status, jobs[id].progress>>)]

\* addBulkFetchJob writing the record off as failed when it did not reach the queue
addBulkFetchJob_FailsUnqueued(tokenAddress, network, enqueued) ==
    /\ bulkFetchJobs' = createBulkFetchJob(
           [ tokenAddress |-> tokenAddress, network |-> network,
             status |-> IF enqueued THEN "pending" ELSE "failed",
             progress |-> Some(0), totalDays |-> None ])
    /\ queue' = IF enqueued
                THEN Append(queue, [ tokenAddress |-> tokenAddress, network |-> network,
                                     jobId |-> Len(bulkFetchJobs) + 1 ])
                ELSE queue
    /\ scheduled' = Append(scheduled, [ jobId |-> Len(bulkFetchJobs) + 1,
                                        enqueued |-> enqueued ])
    /\ UNCHANGED <<cache, connected, historicalPrices, priceQueries, proc, requests, provider, interpolation>>

\* addBulkFetchJob: the record is created, then queue.add when the queue
\* exists; enqueued = FALSE: no queue, or queue.add threw and was logged.
\* return job.id is what the schedule route answers; `scheduled` keeps it,
\* with whether the job reached the queue
addBulkFetchJob(tokenAddress, network, enqueued) ==
    /\ bulkFetchJobs' = createBulkFetchJob(
           [ tokenAddress |-> tokenAddress, network |-> network, status |-> "pending",
             progress |-> Some(0), totalDays |-> None ])
    /\ queue' = IF enqueued
                THEN Append(queue, [ tokenAddress |-> tokenAddress, network |-> network,
                                     jobId |-> Len(bulkFetchJobs) + 1 ])
                ELSE queue
    /\ scheduled' = Append(scheduled, [ jobId |-> Len(bulkFetchJobs) + 1,
                                        enqueued |-> enqueued ])
    /\ UNCHANGED <<cache, connected, historicalPrices, priceQueries, proc, requests, provider, interpolation>>

Active == { id \in DOMAIN proc : proc[id].pc \notin {"idle", "done"} }

\* ProcessJob leaving the job on the queue, to be delivered again
ProcessJob_Redelivers ==
    /\ queue # << >>
    /\ Cardinality(Active) < Concurrency
    /\ LET data == Head(queue)
           jobs == updateBulkFetchJob(data.jobId, [status |-> "processing"])
       IN  /\ bulkFetchJobs' = jobs
           /\ proc' = [proc EXCEPT ![data.jobId] =
                  Trailed([IdleProc EXCEPT !.pc = "creation",
                                           !.tokenAddress = data.tokenAddress,
                                           !.network = data.network],
                          jobs, data.jobId)]
    /\ UNCHANGED <<cache, connected, historicalPrices, priceQueries, queue, requests, scheduled, provider, interpolation>>

\* the worker takes the next waiting job: processJob runs up to
\* await storage.updateBulkFetchJob(jobId, { status: 'processing' })
ProcessJob ==
    /\ queue # << >>
    /\ Cardinality(Active) < Concurrency
    /\ LET data == Head(queue)
           jobs == updateBulkFetchJob(data.jobId, [status |-> "processing"])
       IN  /\ bulkFetchJobs' = jobs
           /\ proc' = [proc EXCEPT ![data.jobId] =
                  Trailed([IdleProc EXCEPT !.pc = "creation",
                                           !.tokenAddress = data.tokenAddress,
                                           !.network = data.network],
                          jobs, data.jobId)]
    /\ queue' = Tail(queue)
    /\ UNCHANGED <<cache, connected, historicalPrices, priceQueries, requests, scheduled, provider, interpolation>>

\* for (let ts = creationTimestamp; ts <= now; ts += 24 * 60 * 60) timestamps.push(ts)
RECURSIVE DailyTimestamps(_, _)
DailyTimestamps(ts, now) ==
    IF ts <= now THEN <<ts>> \o DailyTimestamps(ts + DAY, now) ELSE << >>

\* the catch also writing progress 0 to the record
Failed_ResetsProgress(id, frame) ==
    LET jobs == updateBulkFetchJob(id, [status |-> "failed", progress |-> Some(0)])
    IN  /\ bulkFetchJobs' = jobs
        /\ proc' = [proc EXCEPT ![id] = Trailed([frame EXCEPT !.pc = "done"], jobs, id)]

\* the catch logging the error without writing to the job record
Failed_OnlyLogs(id, frame) ==
    /\ bulkFetchJobs' = bulkFetchJobs
    /\ proc' = [proc EXCEPT ![id] = [frame EXCEPT !.pc = "done"]]

\* catch (error) { await storage.updateBulkFetchJob(jobId, { status: 'failed' }); throw error }
\* entered from `frame`
Failed(id, frame) ==
    LET jobs == updateBulkFetchJob(id, [status |-> "failed"])
    IN  /\ bulkFetchJobs' = jobs
        /\ proc' = [proc EXCEPT ![id] = Trailed([frame EXCEPT !.pc = "done"], jobs, id)]

\* const creationTimestamp = await alchemyService.getTokenCreationDate(...):
\* null (or 0) throws into the catch; otherwise the timestamps are generated and
\* await storage.updateBulkFetchJob(jobId, { totalDays: timestamps.length })
GetTokenCreationDate(id, creationTimestamp) ==
    /\ proc[id].pc = "creation"
    /\ IF ~IsSome(creationTimestamp) \/ Val(creationTimestamp) = 0
       THEN Failed(id, [proc[id] EXCEPT !.creationTimestamp = creationTimestamp])
       ELSE LET timestamps == DailyTimestamps(Val(creationTimestamp), Now)
                jobs == updateBulkFetchJob(id, [totalDays |-> Some(Len(timestamps))])
            IN  /\ bulkFetchJobs' = jobs
                /\ proc' = [proc EXCEPT ![id] =
                       Trailed([@ EXCEPT !.pc = IF Len(timestamps) > 0 THEN "fetch"
                                                ELSE "complete",
                                         !.creationTimestamp = creationTimestamp,
                                         !.timestamps = timestamps, !.i = 0],
                               jobs, id)]
    /\ UNCHANGED <<cache, connected, historicalPrices, priceQueries, queue, requests, scheduled, provider, interpolation>>

Min(a, b) == IF a < b THEN a ELSE b

\* a slice that takes its end bound in as well
Slice_EndInclusive(timestamps, i) ==
    SubSeq(timestamps, i + 1, Min(i + batchSize + 1, Len(timestamps)))

\* timestamps.slice(i, i + batchSize)
Slice(timestamps, i) == SubSeq(timestamps, i + 1, Min(i + batchSize, Len(timestamps)))

\* the next slot after j whose price is not null, 0 when there is none:
\* for (let j = 0; j < prices.length; j++) { if (price) ... }
NextPriced(prices, j) ==
    LET later == { k \in (j + 1)..Len(prices) : IsSome(prices[k]) }
    IN  IF later = {} THEN 0 ELSE CHOOSE k \in later : \A m \in later : k <= m

\* batchGetHistoricalPrices answers: one slot per timestamp, null where the
\* provider gave nothing; the prices of odd and of even slots are drawn apart
BatchAnswers(n) ==
    { [ k \in 1..n |-> IF k \in nulls THEN None
                       ELSE IF k % 2 = 1 THEN Some(odd) ELSE Some(even) ] :
        odd \in TokenPrices, even \in TokenPrices,
        nulls \in { S \in SUBSET (1..n) : Cardinality(S) <= MaxNulls } }

\* const prices = await alchemyService.batchGetHistoricalPrices(tokenAddress, network, batch)
FetchBatch(id) ==
    /\ proc[id].pc = "fetch"
    /\ LET batch == Slice(proc[id].timestamps, proc[id].i)
       IN  \E prices \in BatchAnswers(Len(batch)) :
             LET first == NextPriced(prices, 0)
             IN  proc' = [proc EXCEPT ![id] =
                     [@ EXCEPT !.batch = batch, !.prices = prices, !.j = first,
                               !.pc = IF first = 0 THEN "progress" ELSE "store"]]
    /\ UNCHANGED <<cache, connected, historicalPrices, priceQueries, bulkFetchJobs, queue, requests, scheduled, provider, interpolation>>

\* await storage.createHistoricalPrice({ ..., timestamp: batch[j], ... })
StorePrice(id) ==
    /\ proc[id].pc = "store"
    /\ LET f == proc[id]
           following == NextPriced(f.prices, f.j)
       IN  /\ historicalPrices' = createHistoricalPrice(
                  InsertPrice(f.tokenAddress, f.network, f.batch[f.j], Val(f.prices[f.j])))
           /\ proc' = [proc EXCEPT ![id] =
                  [@ EXCEPT !.j = following,
                            !.pc = IF following = 0 THEN "progress" ELSE "store"]]
    /\ UNCHANGED <<cache, connected, priceQueries, bulkFetchJobs, queue, requests, scheduled, provider, interpolation>>

\* Math.floor(((i + batchSize) / timestamps.length) * 100)
Progress(i, length) == ((i + batchSize) * 100) \div length

\* await storage.updateBulkFetchJob(jobId, { progress }); await job.updateProgress(progress);
\* then i += batchSize
UpdateProgress(id) ==
    /\ proc[id].pc = "progress"
    /\ LET f == proc[id]
           jobs == updateBulkFetchJob(id, [progress |-> Some(Progress(f.i, Len(f.timestamps)))])
       IN  /\ bulkFetchJobs' = jobs
           /\ proc' = [proc EXCEPT ![id] =
                  Trailed([@ EXCEPT !.i = f.i + batchSize, !.batch = << >>, !.prices = << >>,
                                    !.pc = IF f.i + batchSize < Len(f.timestamps)
                                           THEN "fetch" ELSE "complete"],
                          jobs, id)]
    /\ UNCHANGED <<cache, connected, historicalPrices, priceQueries, queue, requests, scheduled, provider, interpolation>>

\* await storage.updateBulkFetchJob(jobId, { status: 'completed', progress: 100 })
Complete(id) ==
    /\ proc[id].pc = "complete"
    /\ LET jobs == updateBulkFetchJob(id, [status |-> "completed", progress |-> Some(100)])
       IN  /\ bulkFetchJobs' = jobs
           /\ proc' = [proc EXCEPT ![id] = Trailed([@ EXCEPT !.pc = "done"], jobs, id)]
    /\ UNCHANGED <<cache, connected, historicalPrices, priceQueries, queue, requests, scheduled, provider, interpolation>>

\* storing a price throws inside the try: price.price.toString() on provider
\* data without a price, or createHistoricalPrice rejecting
StorePriceRejects(id) ==
    /\ proc[id].pc = "store"
    /\ Failed(id, proc[id])
    /\ UNCHANGED <<cache, connected, historicalPrices, priceQueries, queue, requests, scheduled,
                   provider, interpolation>>

\* await job.updateProgress(progress) rejects, after the record took the progress
UpdateProgressRejects(id) ==
    /\ proc[id].pc = "progress"
    /\ LET f == proc[id]
           progress == Some(Progress(f.i, Len(f.timestamps)))
           jobs == updateBulkFetchJob(id, [progress |-> progress, status |-> "failed"])
       IN  /\ bulkFetchJobs' = jobs
           /\ proc' = [proc EXCEPT ![id] =
                  Trailed([f EXCEPT !.pc = "done",
                                    !.trail = Append(@, <<"processing", progress>>)],
                          jobs, id)]
    /\ UNCHANGED <<cache, connected, historicalPrices, priceQueries, queue, requests, scheduled,
                   provider, interpolation>>

(***************************************************************************)
(* AlchemyService: a provider call is pRetry(run, { retries: 3, ... })      *)
(* inside try/catch.  A frame holds the method called, pRetry's count of   *)
(* attempts made, what each failed attempt threw, and what was returned.   *)
(***************************************************************************)
Methods == {"getTokenPrice", "getTokenCreationDate"}

\* what one run of the function given to pRetry comes to: "ok", or the error
\* it throws (an SDK call that rejects throws "rejected")
Outcomes(method) ==
    IF method = "getTokenPrice"
    THEN {"ok", "Rate limited", "HTTP error! status: 404", "HTTP error! status: 500"}
    ELSE {"ok", "No transfers found", "rejected"}

IdleCall ==
    [ pc |-> "idle", method |-> "", attemptNumber |-> 0, thrown |-> << >>,
      result |-> None ]

\* pRetry's retriesLeft after the attempt numbered attemptNumber has failed
retriesLeft(attemptNumber) == retries - (attemptNumber - 1)

\* a creation timestamp that yields a daily sequence of `days` timestamps
CreatedDaysAgo(days) == Now - (days - 1) * DAY

\* what the method returns when a run succeeds
Returned(method) ==
    IF method = "getTokenPrice" THEN TokenPrices ELSE { CreatedDaysAgo(n) : n \in 1..MaxDays }

CallProvider(c, method) ==
    /\ provider[c].pc = "idle"
    /\ IF c = 1 THEN TRUE ELSE provider[c - 1].pc # "idle"
    /\ provider' = [provider EXCEPT ![c] = [IdleCall EXCEPT !.pc = "attempt", !.method = method]]
    /\ UNCHANGED <<cache, connected, historicalPrices, priceQueries, bulkFetchJobs, queue, proc,
                   requests, scheduled, interpolation>>

\* one run of the function: its value resolves pRetry; its error is retried
\* (after the backoff wait) while retries are left, and otherwise rejects
\* pRetry into the catch, which returns null
Attempt(c, outcome) ==
    /\ provider[c].pc = "attempt"
    /\ outcome \in Outcomes(provider[c].method)
    /\ LET f == provider[c]
           attemptNumber == f.attemptNumber + 1
       IN  IF outcome = "ok"
           THEN \E value \in Returned(f.method) :
                  provider' = [provider EXCEPT ![c] =
                      [f EXCEPT !.attemptNumber = attemptNumber, !.pc = "returned",
                                !.result = Some(value)]]
           ELSE provider' = [provider EXCEPT ![c] =
                    [f EXCEPT !.attemptNumber = attemptNumber,
                              !.thrown = Append(@, outcome),
                              !.pc = IF retriesLeft(attemptNumber) > 0 THEN "attempt"
                                     ELSE "returned",
                              !.result = None]]
    /\ UNCHANGED <<cache, connected, historicalPrices, priceQueries, bulkFetchJobs, queue, proc,
                   requests, scheduled, interpolation>>

(***************************************************************************)
(* Specifications                                                          *)
(***************************************************************************)
Init ==
    /\ cache = << >>
    /\ connected = FALSE
    /\ historicalPrices = << >>
    /\ priceQueries = << >>
    /\ bulkFetchJobs = << >>
    /\ queue = << >>
    /\ proc = [id \in JobIds |-> IdleProc]
    /\ requests = [r \in RequestIds |-> IdleFrame]
    /\ scheduled = << >>
    /\ provider = [c \in ProviderCallIds |-> IdleCall]
    /\ interpolation = IdleInterpolation

\* the service handed any two stored price points and any target
InitInterpolation ==
    /\ cache = << >>
    /\ connected = FALSE
    /\ historicalPrices = << >>
    /\ priceQueries = << >>
    /\ bulkFetchJobs = << >>
    /\ queue = << >>
    /\ proc = [id \in JobIds |-> IdleProc]
    /\ requests = [r \in RequestIds |-> IdleFrame]
    /\ scheduled = << >>
    /\ provider = [c \in ProviderCallIds |-> IdleCall]
    /\ \E beforePrice \in PricePoints, afterPrice \in PricePoints,
          targetTimestamp \in PointTimestamps :
          interpolation = [IdleInterpolation EXCEPT !.pc = "can",
                                                    !.beforePrice = Some(beforePrice),
                                                    !.afterPrice = Some(afterPrice),
                                                    !.targetTimestamp = targetTimestamp]

Resolve(r) ==
    \/ \E token \in Tokens, network \in Networks, timestamp \in ReqTimestamps :
          PostPrice(r, token, network, timestamp)
    \/ GetCachedPrice(r)
    \/ AuditCache(r)
    \/ GetHistoricalPrice(r)
    \/ SetCachedStorage(r)
    \/ AuditStorage(r)
    \/ GetTokenPrice(r)
    \/ SetCachedAlchemy(r)
    \/ CreateHistorical(r)
    \/ AuditAlchemy(r)
    \/ GetNearest(r)
    \/ SetCachedInterp(r)
    \/ AuditInterp(r)

Backfill(id, lengths) ==
    \/ \E creationTimestamp \in {None} \cup { Some(CreatedDaysAgo(n)) : n \in lengths } :
          GetTokenCreationDate(id, creationTimestamp)
    \/ FetchBatch(id)
    \/ StorePrice(id)
    \/ UpdateProgress(id)
    \/ Complete(id)

\* the creation timestamps the provider may report: up to MaxRun days back,
\* on the daily grid that ends at the clock reading and off it, and one
\* ahead of the clock
CreationTimestamps ==
    { Now - n * DAY - off : n \in 0..(MaxRun - 1), off \in {0, 1, DAY - 1} } \cup {Now + 1}

BackfillFrom(id, creations) ==
    \/ \E creationTimestamp \in {None} \cup { Some(c) : c \in creations } :
          GetTokenCreationDate(id, creationTimestamp)
    \/ FetchBatch(id)
    \/ StorePrice(id)
    \/ UpdateProgress(id)
    \/ Complete(id)

\* at most `jobs` schedule calls are made
Schedule(jobs) ==
    /\ Len(bulkFetchJobs) < jobs
    /\ \E tokenAddress \in Tokens, network \in Networks, enqueued \in BOOLEAN :
           addBulkFetchJob(tokenAddress, network, enqueued)

Cache == \E key \in DOMAIN cache : ExpireCached(key)

\* price resolutions racing with each other and with one backfill job
Next ==
    \/ \E r \in RequestIds : Resolve(r)
    \/ Cache
    \/ Schedule(1)
    \/ ProcessJob
    \/ \E id \in JobIds : Backfill(id, {MaxDays})

Spec == Init /\ [][Next]_vars

\* two backfill jobs racing with each other
NextJobs ==
    \/ Schedule(2)
    \/ ProcessJob
    \/ \E id \in JobIds : Backfill(id, 1..MaxDays)

SpecJobs == Init /\ [][NextJobs]_vars

\* one backfill job over a history of more than one batch
NextRun ==
    \/ Schedule(1)
    \/ ProcessJob
    \/ \E id \in JobIds : Backfill(id, 1..MaxRun)

SpecRun == Init /\ [][NextRun]_vars

\* one backfill job for a token created at any instant
NextDays ==
    \/ Schedule(1)
    \/ ProcessJob
    \/ \E id \in JobIds : BackfillFrom(id, CreationTimestamps)

SpecDays == Init /\ [][NextDays]_vars

\* two backfill jobs whose steps may throw.  The event loop resumes every
\* processJob whose awaited call has settled, and the worker takes a waiting
\* job while fewer than `concurrency` are running: weak fairness of both
Work(id) ==
    \/ Backfill(id, 1..MaxDays)
    \/ StorePriceRejects(id)
    \/ UpdateProgressRejects(id)

NextWorker ==
    \/ Schedule(2)
    \/ ProcessJob
    \/ \E id \in JobIds : Work(id)

SpecWorker ==
    /\ Init
    /\ [][NextWorker]_vars
    /\ WF_vars(ProcessJob)
    /\ \A id \in JobIds : WF_vars(Work(id))

\* Spec over a persistence backend whose calls can reject
NextFault ==
    \/ Next
    \/ \E r \in RequestIds : PriceLookupError(r)

SpecFault == Init /\ [][NextFault]_vars

\* provider calls in flight together, as batchGetHistoricalPrices makes them
NextProvider ==
    \/ \E c \in ProviderCallIds, method \in Methods : CallProvider(c, method)
    \/ \E c \in ProviderCallIds :
          \E outcome \in Outcomes("getTokenPrice") \cup Outcomes("getTokenCreationDate") :
             Attempt(c, outcome)

SpecProvider == Init /\ [][NextProvider]_vars

\* two backfill jobs, for the same or for different tokens and networks,
\* persisting price points
ScheduleAny(jobs) ==
    /\ Len(bulkFetchJobs) < jobs
    /\ \E tokenAddress \in StoreTokens, network \in StoreNetworks, enqueued \in BOOLEAN :
           addBulkFetchJob(tokenAddress, network, enqueued)

NextStore ==
    \/ ScheduleAny(2)
    \/ ProcessJob
    \/ \E id \in JobIds : Backfill(id, 1..MaxDays)

SpecStore == Init /\ [][NextStore]_vars

\* the interpolation service on its own
NextInterpolation ==
    \/ CanInterpolate
    \/ InterpolatePrice

SpecInterpolation == InitInterpolation /\ [][NextInterpolation]_vars

(***************************************************************************)
(* Properties of the price resolution chain                                *)
(***************************************************************************)
TierOrder ==
    << "redis.get", "storage.getHistoricalPrice", "alchemy.getTokenPrice",
       "storage.getNearestHistoricalPrices" >>

IsTierCall(call) == \E k \in 1..Len(TierOrder) : TierOrder[k] = call

\* the tier lookups a call has made, in the order it made them
Consulted(f) == SelectSeq(f.calls, IsTierCall)

Sent(f) == f.response.status = 200
Source(f) == Val(f.response.body).source

\* C1: within one resolution call the tiers are consulted in the order
\* cache, persisted exact match, provider, interpolation; a tier is consulted
\* only when every earlier tier missed, and none after the tier that succeeded.
C1_TiersInOrder ==
    \A r \in RequestIds :
        LET f == requests[r]
            t == Consulted(f)
        IN  /\ Len(t) <= Len(TierOrder)
            /\ \A k \in 1..Len(t) : t[k] = TierOrder[k]
            /\ Len(t) >= 2 => ~IsSome(f.cached)
            /\ Len(t) >= 3 => ~IsSome(f.existingPrice)
            /\ Len(t) >= 4 => ~IsSome(f.alchemyPrice)
            /\ IsSome(f.cached) => Len(t) = 1
            /\ IsSome(f.existingPrice) => Len(t) = 2
            /\ IsSome(f.alchemyPrice) => Len(t) = 3
            /\ IsSome(f.interpolated) => Len(t) = 4
            /\ Sent(f) => \/ Source(f) = "cache" /\ IsSome(f.cached)
                          \/ Source(f) = "storage" /\ IsSome(f.existingPrice)
                          \/ Source(f) = "alchemy" /\ IsSome(f.alchemyPrice)
                          \/ Source(f) = "interpolated" /\ IsSome(f.interpolated)
            /\ f.response.status = 404 => Len(t) = 4 /\ ~IsSome(f.interpolated)

\* a call answered by interpolation, after the three tiers before it missed
C1_Witness ==
    \E r \in RequestIds :
        /\ Sent(requests[r])
        /\ Source(requests[r]) = "interpolated"
        /\ Len(Consulted(requests[r])) = 4

\* the tier that satisfied a call
SatisfiedBy(f) ==
    IF IsSome(f.cached) THEN "cache"
    ELSE IF IsSome(f.existingPrice) THEN "storage"
    ELSE IF IsSome(f.alchemyPrice) THEN "provider"
    ELSE IF IsSome(f.interpolated) THEN "interpolated"
    ELSE "none"

\* the records of the audit log, each with the call that created it
Audited == { <<r, k>> \in RequestIds \X (1..2) : k <= Len(requests[r].audits) }

\* a call that returned a price created exactly one PriceQuery, for its own
\* key, whose source is tag[tier that satisfied it]
OneAudit(tag) ==
    /\ \A r \in RequestIds :
          LET f == requests[r]
          IN  /\ Len(f.audits) <= 1
              /\ Sent(f) =>
                   /\ Len(f.audits) = 1
                   /\ f.audits[1] \in DOMAIN priceQueries
                   /\ LET q == priceQueries[f.audits[1]]
                      IN  /\ q.source = tag[SatisfiedBy(f)]
                          /\ q.tokenAddress = f.token
                          /\ q.network = f.network
                          /\ q.timestamp = f.timestamp
    /\ \A r1 \in RequestIds, r2 \in RequestIds :
          (r1 # r2 /\ Len(requests[r1].audits) = 1 /\ Len(requests[r2].audits) = 1)
              => requests[r1].audits[1] # requests[r2].audits[1]
    /\ Len(priceQueries) = Cardinality(Audited)

\* C2 as stated: every resolution call that returns a price appends exactly
\* one PriceQuery, whose source names the satisfying tier as one of cache,
\* storage, provider, interpolated.
C2_SourceIsTierName ==
    OneAudit([ t \in {"cache", "storage", "provider", "interpolated", "none"} |-> t ])

\* C2 amended: every resolution call that returns a price appends exactly one
\* PriceQuery, whose source is the satisfying tier's tag: cache, storage,
\* alchemy (the provider tier) or interpolated.
C2_OneAuditPerPrice ==
    OneAudit([ t \in {"cache", "storage", "provider", "interpolated", "none"} |->
                 IF t = "provider" THEN "alchemy" ELSE t ])

\* a call satisfied by the provider has returned, its one record in the log
C2_Witness ==
    \E r \in RequestIds :
        /\ Sent(requests[r])
        /\ SatisfiedBy(requests[r]) = "provider"
        /\ Len(requests[r].audits) = 1
        /\ priceQueries[requests[r].audits[1]].source = "alchemy"

\* C7: a resolution satisfied by a cache hit writes neither the cache nor a
\* PricePoint; all it changes is the audit log, by one record.
C7_CacheHitWritesNothing ==
    [][ \A r \in RequestIds :
          LET f == requests[r]
              g == requests'[r]
          IN  /\ (f.pc = "getCached" /\ g.pc = "auditCache") =>
                    UNCHANGED <<cache, historicalPrices, priceQueries, bulkFetchJobs, queue>>
              /\ (f.pc = "auditCache" /\ g # f) =>
                    /\ UNCHANGED <<cache, historicalPrices, bulkFetchJobs, queue>>
                    /\ Len(priceQueries') = Len(priceQueries) + 1
                    /\ SubSeq(priceQueries', 1, Len(priceQueries)) = priceQueries
                    /\ Sent(g) /\ Source(g) = "cache"
                    /\ g.calls = << "redis.get", "storage.createPriceQuery" >>
      ]_vars

\* a call answered from the cache
C7_Witness ==
    \E r \in RequestIds :
        /\ Sent(requests[r])
        /\ Source(requests[r]) = "cache"
        /\ CacheKey(requests[r].token, requests[r].network, requests[r].timestamp)
              \in DOMAIN cache

ProviderPrices == { NumberToString(tp.price) : tp \in TokenPrices }

\* C8: a resolution satisfied by interpolation writes its result to the cache
\* and never persists a PricePoint: the persisted points are unchanged by the
\* call, so every persisted price is one the provider gave.
C8_InterpolationNotPersisted ==
    [][ /\ \A r \in RequestIds :
             LET f == requests[r]
                 g == requests'[r]
                 key == CacheKey(f.token, f.network, f.timestamp)
             IN  /\ (f.pc = "getNearest" /\ g.pc = "setCachedInterp") =>
                       UNCHANGED <<cache, historicalPrices>>
                 /\ (f.pc = "setCachedInterp" /\ g # f) =>
                       /\ UNCHANGED historicalPrices
                       /\ connected' =>
                            /\ key \in DOMAIN cache'
                            /\ JsonParse(cache'[key]) = InterpolatedResult(Val(f.interpolated))
                 /\ (f.pc = "auditInterp" /\ g # f) =>
                       /\ UNCHANGED <<cache, historicalPrices>>
                       /\ Sent(g) /\ Source(g) = "interpolated"
                       /\ \A k \in 1..Len(g.calls) :
                              g.calls[k] # "storage.createHistoricalPrice"
        /\ \A k \in DOMAIN historicalPrices' :
               historicalPrices'[k].price \in ProviderPrices
      ]_vars

\* a call answered with an estimate no provider price equals: the estimate is
\* cached under the call's key, and no PricePoint exists for that key
C8_Witness ==
    \E r \in RequestIds :
        LET f == requests[r]
            key == CacheKey(f.token, f.network, f.timestamp)
        IN  /\ Sent(f)
            /\ Source(f) = "interpolated"
            /\ NumberToString(Val(f.response.body).price) \notin ProviderPrices
            /\ key \in DOMAIN cache
            /\ JsonParse(cache[key]).source = "interpolated"
            /\ StorageKey(f.token, f.network, f.timestamp) \notin DOMAIN historicalPrices

\* the storage call `call` of frame f rejected
Rejected(f, call) == \E k \in 1..Len(f.calls) : f.calls[k] = call \o " rejected"

\* C9: a persistence failure does not abort a resolution: a failed exact-match
\* read is treated as a miss and the provider is asked next, and a failed
\* PricePoint write after a provider success still returns the provider's price.
C9_PersistenceFailureTolerated ==
    \A r \in RequestIds :
        LET f == requests[r]
        IN  /\ Rejected(f, "storage.getHistoricalPrice") =>
                  /\ f.response.status # 500
                  /\ \E k \in 1..Len(f.calls) : f.calls[k] = "alchemy.getTokenPrice"
            /\ Rejected(f, "storage.createHistoricalPrice") =>
                  /\ Sent(f)
                  /\ Val(f.response.body) = AlchemyResult(Val(f.alchemyPrice))

SetCachedPcs == {"setCachedStorage", "setCachedAlchemy", "setCachedInterp"}

\* the position after the write-through of each tier
AfterSetCached(pc) ==
    CASE pc = "setCachedStorage" -> "auditStorage"
      [] pc = "setCachedAlchemy" -> "createHistorical"
      [] pc = "setCachedInterp" -> "auditInterp"

\* C10: when Redis is unreachable on the lookup the call goes on exactly as on
\* a miss, with the persistence tier; when it is unreachable on a write-through
\* the call goes on as after a write, the cache unchanged; a Redis failure
\* never ends a call with an error.
C10_CacheFailureIsMiss ==
    [][ \A r \in RequestIds :
          LET f == requests[r]
              g == requests'[r]
          IN  /\ (f.pc = "getCached" /\ g # f /\ ~connected') =>
                    /\ g = [f EXCEPT !.pc = "getHistorical",
                                     !.calls = Append(@, "redis.get")]
                    /\ UNCHANGED <<cache, historicalPrices, priceQueries>>
              /\ (f.pc = "getCached" /\ g # f /\ ~IsSome(g.cached)) =>
                    g.pc = "getHistorical"
              /\ (f.pc \in SetCachedPcs /\ g # f /\ ~connected') =>
                    /\ g = [f EXCEPT !.pc = AfterSetCached(f.pc),
                                     !.calls = Append(@, "redis.set")]
                    /\ UNCHANGED <<cache, historicalPrices, priceQueries>>
              /\ g.response.status # 500
      ]_vars

\* the only call made so far has returned the persisted price although its
\* write-through, the last Redis call made, did not reach Redis
C10_Witness ==
    \E r \in RequestIds :
        /\ \A q \in RequestIds \ {r} : requests[q].pc = "idle"
        /\ Sent(requests[r])
        /\ Source(requests[r]) = "storage"
        /\ ~connected
        /\ cache = << >>

(***************************************************************************)
(* Properties of the persisted price points and of the backfill jobs       *)
(***************************************************************************)
\* C3: once a PricePoint is persisted under an identity key its price is never
\* overwritten, whatever resolutions and backfill jobs run afterwards.
C3_WriteOnce ==
    [][ \A key \in DOMAIN historicalPrices :
          /\ key \in DOMAIN historicalPrices'
          /\ historicalPrices'[key].price = historicalPrices[key].price
      ]_vars

Terminal == {"completed", "failed"}

\* C4: completed and failed are terminal: no step changes the status of a job
\* record that has one of them.
C4_TerminalStatus ==
    [][ \A id \in DOMAIN bulkFetchJobs :
          bulkFetchJobs[id].status \in Terminal =>
              /\ id \in DOMAIN bulkFetchJobs'
              /\ bulkFetchJobs'[id].status = bulkFetchJobs[id].status
      ]_vars

\* one job has ended, in either way, while another is in the middle of its
\* batches
C4_Witness ==
    \E a \in DOMAIN bulkFetchJobs, b \in DOMAIN bulkFetchJobs :
        /\ bulkFetchJobs[a].status \in Terminal
        /\ bulkFetchJobs[b].status = "processing"
        /\ proc[b].pc = "store"

\* C5: the progress stored on every job record lies in 0..100.
C5_ProgressInRange ==
    \A id \in DOMAIN bulkFetchJobs :
        IsSome(bulkFetchJobs[id].progress) =>
            Val(bulkFetchJobs[id].progress) \in 0..100

\* the statuses, and the progress values, a job's updates left on its record
Statuses(id) == [ k \in 1..Len(proc[id].trail) |-> proc[id].trail[k][1] ]
IsWritten(entry) == IsSome(entry[2])
Written(id) ==
    LET entries == SelectSeq(proc[id].trail, IsWritten)
    IN  [ k \in 1..Len(entries) |-> Val(entries[k][2]) ]

\* C6: a job that runs to completion went from pending through processing to
\* completed, and the progress values on its record from pickup on never
\* decrease and end at 100.
C6_ProgressMonotone ==
    \A id \in DOMAIN bulkFetchJobs :
        (proc[id].pc = "done" /\ bulkFetchJobs[id].status = "completed") =>
            LET statuses == Statuses(id)
                written == Written(id)
            IN  /\ \A k \in 1..(Len(statuses) - 1) : statuses[k] = "processing"
                /\ statuses[Len(statuses)] = "completed"
                /\ \A k \in 1..(Len(written) - 1) : written[k] <= written[k + 1]
                /\ written[Len(written)] = 100

(***************************************************************************)
(* Properties of scheduling and of a job that cannot start                 *)
(***************************************************************************)
\* C11: a backfill job whose token creation timestamp cannot be determined
\* ends in status failed, with no batch fetched and no price persisted for it,
\* and with the progress its record had before the failure.
C11_UnresolvableCreationFails ==
    [][ \A id \in DOMAIN bulkFetchJobs' :
          (proc'[id].pc \notin {"idle", "creation"}
             /\ ~IsSome(proc'[id].creationTimestamp)) =>
              /\ proc'[id].pc = "done"
              /\ bulkFetchJobs'[id].status = "failed"
              /\ proc'[id].timestamps = << >>
              /\ proc'[id].batch = << >>
              /\ proc'[id].prices = << >>
              /\ (proc[id].pc = "creation" =>
                    /\ bulkFetchJobs'[id].progress = bulkFetchJobs[id].progress
                    /\ historicalPrices' = historicalPrices)
      ]_vars

\* a job has failed for want of a creation timestamp while the other job, for
\* the same token, is storing prices
C11_Witness ==
    \E a \in DOMAIN bulkFetchJobs, b \in DOMAIN bulkFetchJobs :
        /\ proc[a].pc = "done"
        /\ ~IsSome(proc[a].creationTimestamp)
        /\ bulkFetchJobs[a].status = "failed"
        /\ proc[b].pc = "store"

\* C12: every schedule call creates a job record in status pending and
\* returns its id; when the job did not reach the queue the id is still
\* returned and the record stays pending, among the active jobs.
C12_ScheduleAlwaysReturnsId ==
    [][ \A k \in DOMAIN scheduled' :
          LET id == scheduled'[k].jobId
          IN  /\ id \in DOMAIN bulkFetchJobs'
              /\ (k \notin DOMAIN scheduled =>
                    /\ id \notin DOMAIN bulkFetchJobs
                    /\ bulkFetchJobs'[id].status = "pending")
              /\ (~scheduled'[k].enqueued =>
                    /\ bulkFetchJobs'[id].status = "pending"
                    /\ id \in getActiveBulkFetchJobs')
      ]_vars

\* a job that never reached the queue is still pending after a job scheduled
\* later has run to its end
C12_Witness ==
    \E k \in DOMAIN scheduled, id \in DOMAIN bulkFetchJobs :
        /\ ~scheduled[k].enqueued
        /\ bulkFetchJobs[scheduled[k].jobId].status = "pending"
        /\ id > scheduled[k].jobId
        /\ proc[id].pc = "done"

(***************************************************************************)
(* Properties of the provider's retry policy                               *)
(***************************************************************************)
\* the errors that say the provider has no data: HTTP 404, no transfer found
NotFoundErrors == {"HTTP error! status: 404", "No transfers found"}

\* C13: every provider call makes at most 3 attempts in total before it
\* gives up and reports a miss.
C13_AtMostThreeAttempts ==
    \A c \in ProviderCallIds : provider[c].attemptNumber <= 3

\* C14: a provider call that fails with NotFound is not retried: it ends
\* after that one attempt; a RateLimited or Transient failure is retried; and
\* a call that runs out of attempts returns a miss.
C14_NotFoundFailsFast ==
    \A c \in ProviderCallIds :
        LET f == provider[c]
        IN  /\ \A k \in DOMAIN f.thrown :
                  f.thrown[k] \in NotFoundErrors =>
                      k = 1 /\ Len(f.thrown) = 1 /\ f.pc = "returned"
            /\ \A k \in DOMAIN f.thrown :
                  (f.thrown[k] \notin NotFoundErrors /\ k < 3 /\ k = Len(f.thrown)) =>
                      f.pc = "attempt"
            /\ (f.pc = "returned" /\ f.attemptNumber = Len(f.thrown)) => f.result = None

(***************************************************************************)
(* Properties of the interpolation service                                 *)
(***************************************************************************)
\* the arguments of the interpolation in hand, as integers
BeforeTs == Val(interpolation.beforePrice).timestamp
AfterTs == Val(interpolation.afterPrice).timestamp
BeforeValue == parseFloat(Val(interpolation.beforePrice).price).num
AfterValue == parseFloat(Val(interpolation.afterPrice).price).num

\* C15: canInterpolate returns false when the target equals before.timestamp,
\* when after.timestamp - before.timestamp exceeds 604800 seconds, when
\* |after.price - before.price| / before.price exceeds 0.5, and when
\* before.price is zero, whatever the other inputs are.
C15_CanInterpolateRefuses ==
    interpolation.pc \in {"interpolate", "done"} =>
        ((\/ interpolation.targetTimestamp = BeforeTs
          \/ AfterTs - BeforeTs > 604800
          \/ (BeforeValue > 0 /\ 2 * Abs(AfterValue - BeforeValue) > BeforeValue)
          \/ BeforeValue = 0)
            => ~interpolation.can)

\* C16: for before.timestamp < target < after.timestamp, interpolatePrice
\* returns ratio = (target - before.timestamp) / (after.timestamp -
\* before.timestamp) and price = before.price + (after.price - before.price)
\* * ratio, a price between before.price and after.price inclusive.
C16_LinearInterpolation ==
    (/\ interpolation.pc = "done"
     /\ BeforeTs < interpolation.targetTimestamp
     /\ interpolation.targetTimestamp < AfterTs) =>
        LET result == Val(interpolation.interpolated)
            elapsed == interpolation.targetTimestamp - BeforeTs
            span == AfterTs - BeforeTs
            lower == IF BeforeValue < AfterValue THEN BeforeValue ELSE AfterValue
            upper == IF BeforeValue < AfterValue THEN AfterValue ELSE BeforeValue
        IN  /\ result.details.ratio = Rat(elapsed, span)
            /\ result.price =
                   Rat(BeforeValue * span + (AfterValue - BeforeValue) * elapsed, span)
            /\ result.price.den > 0
            /\ lower * result.price.den <= result.price.num
            /\ result.price.num <= upper * result.price.den

\* before (1000, 10), after (2000, 20), target 1500: price 15 and ratio 0.5
C16_Witness ==
    /\ interpolation.pc = "done"
    /\ BeforeTs = 1000 /\ BeforeValue = 10
    /\ AfterTs = 2000 /\ AfterValue = 20
    /\ interpolation.targetTimestamp = 1500
    /\ Val(interpolation.interpolated).price = Num(15)
    /\ Val(interpolation.interpolated).details.ratio = Rat(1, 2)

(***************************************************************************)
(* Properties of the job records                                           *)
(***************************************************************************)
\* C17: scheduling a backfill for the same token and network twice creates
\* two job records with distinct ids, without deduplication; the status and
\* progress of a record change only in steps of its own job; and a job id is
\* never reused.
C17_JobsIndependent ==
    [][ /\ Len(bulkFetchJobs') = Len(scheduled')
        /\ \A j \in DOMAIN scheduled', k \in DOMAIN scheduled' :
              j # k => scheduled'[j].jobId # scheduled'[k].jobId
        /\ \A k \in DOMAIN scheduled :
              /\ k \in DOMAIN scheduled'
              /\ scheduled'[k] = scheduled[k]
        /\ \A id \in DOMAIN bulkFetchJobs :
              /\ id \in DOMAIN bulkFetchJobs'
              /\ bulkFetchJobs'[id].tokenAddress = bulkFetchJobs[id].tokenAddress
              /\ bulkFetchJobs'[id].network = bulkFetchJobs[id].network
              /\ (\/ bulkFetchJobs'[id].status # bulkFetchJobs[id].status
                  \/ bulkFetchJobs'[id].progress # bulkFetchJobs[id].progress) =>
                    /\ proc'[id] # proc[id]
                    /\ \A other \in JobIds \ {id} : proc'[other] = proc[other]
      ]_vars

\* two jobs for the same token and network, the first completed and the
\* second still waiting in the queue
C17_Witness ==
    /\ Len(bulkFetchJobs) = 2
    /\ bulkFetchJobs[1].tokenAddress = bulkFetchJobs[2].tokenAddress
    /\ bulkFetchJobs[1].network = bulkFetchJobs[2].network
    /\ scheduled[1].jobId # scheduled[2].jobId
    /\ bulkFetchJobs[1].status = "completed"
    /\ bulkFetchJobs[2].status = "pending"
    /\ scheduled[2].enqueued

\* C18: a job record has completedAt set only if its status is completed,
\* and a completed record has completedAt set and progress 100.
C18_CompletedAtOnlyOnCompleted ==
    \A id \in DOMAIN bulkFetchJobs :
        LET job == bulkFetchJobs[id]
        IN  /\ IsSome(job.completedAt) => job.status = "completed"
            /\ job.status = "completed" =>
                  /\ IsSome(job.completedAt)
                  /\ job.progress = Some(100)

\* one job has completed, stamped, and another has failed, unstamped
C18_Witness ==
    \E a \in DOMAIN bulkFetchJobs, b \in DOMAIN bulkFetchJobs :
        /\ bulkFetchJobs[a].status = "completed"
        /\ IsSome(bulkFetchJobs[a].completedAt)
        /\ bulkFetchJobs[b].status = "failed"
        /\ ~IsSome(bulkFetchJobs[b].completedAt)

(***************************************************************************)
(* Properties of a resolution that finds nothing                           *)
(***************************************************************************)
\* C19: a price resolution in which no tier succeeds returns NotFound and
\* writes no PriceQuery audit record.
C19_NotFoundWritesNoAudit ==
    [][ \A r \in RequestIds :
          LET f == requests'[r]
          IN  /\ (f.pc = "done" /\ SatisfiedBy(f) = "none") => f.response.status = 404
              /\ f.response.status = 404 =>
                    /\ SatisfiedBy(f) = "none"
                    /\ Len(Consulted(f)) = Len(TierOrder)
                    /\ f.audits = << >>
                    /\ (requests[r].response.status # 404 => priceQueries' = priceQueries)
      ]_vars

\* one call has been answered NotFound while the audit log holds the record
\* of another call, which found a price
C19_Witness ==
    \E r1 \in RequestIds, r2 \in RequestIds :
        /\ requests[r1].response.status = 404
        /\ requests[r1].audits = << >>
        /\ Sent(requests[r2])
        /\ Len(priceQueries) = 1

(***************************************************************************)
(* Properties of the exact-match lookup                                    *)
(***************************************************************************)
\* the identity keys a lookup may name
IdentityKeys ==
    StoreTokens \X StoreNetworks \X { CreatedDaysAgo(n) : n \in 1..(MaxDays + 1) }

\* C20: once a PricePoint is persisted for an identity key, the exact-match
\* lookup with the same token address, network and timestamp returns a point
\* with the same price, marketCap and volume, and the lookup with any other
\* identity key does not return it.
C20_LookupRoundTrip ==
    [][ \A id \in JobIds :
          (proc[id].pc = "store" /\ proc'[id] # proc[id]) =>
              /\ <<proc[id].tokenAddress, proc[id].network, proc[id].batch[proc[id].j]>>
                     \in IdentityKeys
              /\ \A mine \in IdentityKeys :
                    mine = <<proc[id].tokenAddress, proc[id].network,
                             proc[id].batch[proc[id].j]>> =>
                        LET given == Val(proc[id].prices[proc[id].j])
                            got == getHistoricalPrice(mine[1], mine[2], mine[3])'
                        IN  /\ IsSome(got)
                            /\ Val(got).tokenAddress = mine[1]
                            /\ Val(got).network = mine[2]
                            /\ Val(got).timestamp = mine[3]
                            /\ parseFloat(Val(got).price) = given.price
                            /\ ParseOrUndefined(Val(got).marketCap) = given.marketCap
                            /\ ParseOrUndefined(Val(got).volume) = given.volume
                            /\ \A key \in IdentityKeys \ {mine} :
                                  getHistoricalPrice(key[1], key[2], key[3])' =
                                      getHistoricalPrice(key[1], key[2], key[3])
      ]_vars

\* the same token holds a point with market cap and volume on one network
\* and, for the same timestamp, a point without them on the other
C20_Witness ==
    \E token \in StoreTokens, timestamp \in { CreatedDaysAgo(n) : n \in 1..MaxDays } :
        LET one == getHistoricalPrice(token, "ethereum", timestamp)
            two == getHistoricalPrice(token, "polygon", timestamp)
        IN  /\ IsSome(one) /\ IsSome(two)
            /\ IsSome(Val(one).marketCap)
            /\ ~IsSome(Val(two).marketCap)
            /\ Val(one).price # Val(two).price

(***************************************************************************)
(* Properties of a scheduled job before pickup, and of a NotFound answer   *)
(***************************************************************************)
\* C23: from the return of schedule until a worker picks the job up, the job
\* record has status pending, progress 0, and neither totalDays nor
\* completedAt set.
C23_FreshJobRecord ==
    \A k \in DOMAIN scheduled :
        LET id == scheduled[k].jobId
        IN  proc[id].pc = "idle" =>
                /\ bulkFetchJobs[id].status = "pending"
                /\ bulkFetchJobs[id].progress = Some(0)
                /\ bulkFetchJobs[id].totalDays = None
                /\ bulkFetchJobs[id].completedAt = None

\* C24: a price resolution that returns NotFound has written no cache entry
\* and persisted no PricePoint: it made the four lookups and nothing else,
\* and no lookup step changes the cache or the persisted price points.
C24_NotFoundWritesNothing ==
    [][ \A r \in RequestIds :
          LET f == requests[r]
              g == requests'[r]
          IN  /\ g.response.status = 404 => g.calls = TierOrder
              /\ (/\ Len(g.calls) = Len(f.calls) + 1
                  /\ IsTierCall(g.calls[Len(g.calls)])) =>
                     UNCHANGED <<cache, historicalPrices>>
      ]_vars

\* a call has been answered NotFound while the cache and the persisted
\* price points hold what another call and the backfill job wrote
C24_Witness ==
    \E r \in RequestIds :
        /\ requests[r].response.status = 404
        /\ DOMAIN cache # {}
        /\ DOMAIN historicalPrices # {}
        /\ CacheKey(requests[r].token, requests[r].network, requests[r].timestamp)
               \notin DOMAIN cache
        /\ StorageKey(requests[r].token, requests[r].network, requests[r].timestamp)
               \notin DOMAIN historicalPrices

(***************************************************************************)
(* Properties of the worker's pass over the days                           *)
(***************************************************************************)
\* the job has its timestamps
Started(f) ==
    IsSome(f.creationTimestamp) /\ f.pc \in {"fetch", "store", "progress", "complete", "done"}

\* every slot of prices from `from` to `to` is null
NullBetween(prices, from, to) == \A k \in from..to : ~IsSome(prices[k])

\* C22: the timestamp sequence is c, c + 86400, c + 2 * 86400, ... up to the
\* largest value not exceeding now, and totalDays is its length before any
\* batch is fetched; the timestamps go to the provider in increasing order in
\* consecutive batches of at most 10, each in exactly one batch; each
\* non-null result is persisted under the timestamp of its own slot, and a
\* null result is skipped without failing the job.
C22_DailyBatches ==
    [][ \A id \in DOMAIN bulkFetchJobs' :
          LET f == proc[id]
              g == proc'[id]
              length == Len(g.timestamps)
          IN  /\ Started(g) =>
                    /\ Val(g.creationTimestamp) > Now => length = 0
                    /\ Val(g.creationTimestamp) <= Now =>
                          /\ length >= 1
                          /\ g.timestamps[length] <= Now
                          /\ g.timestamps[length] + 86400 > Now
                    /\ \A k \in 1..length :
                          g.timestamps[k] = Val(g.creationTimestamp) + (k - 1) * 86400
                    /\ bulkFetchJobs'[id].totalDays = Some(length)
                    /\ bulkFetchJobs'[id].status \in {"processing", "completed"}
                    /\ g.pc = "done" => bulkFetchJobs'[id].status = "completed"
              /\ (f.pc = "fetch" /\ g # f) =>
                    /\ f.i % 10 = 0
                    /\ f.i < length
                    /\ Len(g.batch) = (IF length - f.i < 10 THEN length - f.i ELSE 10)
                    /\ \A k \in 1..Len(g.batch) : g.batch[k] = f.timestamps[f.i + k]
                    /\ Len(g.prices) = Len(g.batch)
                    /\ historicalPrices' = historicalPrices
                    /\ IF g.j = 0
                       THEN NullBetween(g.prices, 1, Len(g.prices)) /\ g.pc = "progress"
                       ELSE /\ IsSome(g.prices[g.j])
                            /\ NullBetween(g.prices, 1, g.j - 1)
                            /\ g.pc = "store"
              /\ (f.pc = "store" /\ g # f) =>
                    LET key == StorageKey(f.tokenAddress, f.network, f.batch[f.j])
                    IN  /\ key \in DOMAIN historicalPrices'
                        /\ historicalPrices'[key].timestamp = f.batch[f.j]
                        /\ parseFloat(historicalPrices'[key].price) = Val(f.prices[f.j]).price
                        /\ \A other \in DOMAIN historicalPrices' \ {key} :
                              /\ other \in DOMAIN historicalPrices
                              /\ historicalPrices'[other] = historicalPrices[other]
                        /\ IF g.j = 0
                           THEN NullBetween(f.prices, f.j + 1, Len(f.prices))
                                  /\ g.pc = "progress"
                           ELSE /\ g.j > f.j
                                /\ IsSome(f.prices[g.j])
                                /\ NullBetween(f.prices, f.j + 1, g.j - 1)
                                /\ g.pc = "store"
              /\ (f.pc = "progress" /\ g # f) =>
                    /\ g.i = f.i + 10
                    /\ g.pc = (IF g.i < length THEN "fetch" ELSE "complete")
      ]_vars

\* a job over eleven days, counted from an instant off the daily grid, has
\* completed with one day's price missing: the provider gave null for it
C22_Witness ==
    \E id \in DOMAIN bulkFetchJobs :
        /\ proc[id].pc = "done"
        /\ bulkFetchJobs[id].status = "completed"
        /\ Len(proc[id].timestamps) = 11
        /\ (Now - Val(proc[id].creationTimestamp)) % DAY # 0
        /\ Cardinality(DOMAIN historicalPrices) = 10

(***************************************************************************)
(* Properties of a job that meets an error                                 *)
(***************************************************************************)
\* C21: an error raised while a worker executes a job marks the job failed
\* and stops it: after it the job fetches no batch and persists no price;
\* and every job a worker picks up eventually reaches completed or failed.
C21_ErrorsFailTheJob ==
    /\ [][ \A id \in DOMAIN bulkFetchJobs :
              LET f == proc[id]
                  g == proc'[id]
              IN  /\ (f.pc \in {"creation", "store", "progress"} /\ g.pc = "done") =>
                        /\ bulkFetchJobs'[id].status = "failed"
                        /\ historicalPrices' = historicalPrices
                  /\ (f.pc = "done" \/ bulkFetchJobs[id].status \in Terminal) =>
                        /\ g = f
                        /\ bulkFetchJobs'[id] = bulkFetchJobs[id]
                  /\ (g # f /\ historicalPrices' # historicalPrices) =>
                        bulkFetchJobs[id].status = "processing"
        ]_vars
    /\ \A id \in JobIds :
          (proc[id].pc = "creation") ~>
              (proc[id].pc = "done" /\ bulkFetchJobs[id].status \in Terminal)

\* one job has failed on an error met after its first batch was fetched,
\* and the other has gone on to complete
C21_Witness ==
    \E a \in DOMAIN bulkFetchJobs, b \in DOMAIN bulkFetchJobs :
        /\ bulkFetchJobs[a].status = "failed"
        /\ proc[a].batch # << >>
        /\ bulkFetchJobs[b].status = "completed"

====
